---- MODULE Spec2Model ----
(***************************************************************************)
(* Persistent circular record buffer on a wear-levelled flash partition    *)
(* (CircularBuffer, circular_buffer.cpp).  The flash is modelled as the    *)
(* two header slots and the record slots of the data ring; every public    *)
(* method is one action that runs the whole method, adapter call by        *)
(* adapter call, under one injected fault (an adapter error, or a power    *)
(* loss after a given adapter call).                                       *)
(***************************************************************************)
EXTENDS Integers, Sequences, FiniteSets, TLC

VARIABLES
    g,            \* partition geometry and record size (fixed per behaviour)
    overwrite,    \* this->overwrite
    mounted,      \* TRUE between a successful init and the next power loss
    front,        \* this->front
    record_num,   \* this->record_num
    sequence,     \* this->sequence
    hdr,          \* flash: the two header slots
    data,         \* flash: the record slots of the data ring, by ring offset
    last,         \* the last call: method, fault, result, adapter call trace
    pushed,       \* history: payloads of the push_back calls that returned ESP_OK
    popped,       \* history: payloads returned by the pop_front calls that returned ESP_OK
    durable,      \* history: slot and state of the last header written successfully
    expect,       \* history: (front, record_num, head) after the last successful call
    inflight,     \* history: pre/post state of a call cut by a power loss
    hist,         \* history flags: faults seen, empty deletes, fresh-reset streak
    ops,          \* number of calls made so far
    budget        \* the calls and faults a behaviour may hold (fixed per behaviour)

vars == <<g, overwrite, mounted, front, record_num, sequence, hdr, data, last,
          pushed, popped, durable, expect, inflight, hist, ops, budget>>

----------------------------------------------------------------------------
(* Bounds of the model *)

\* calls per behaviour without faults
MaxOps == 7

\* calls per behaviour with faults, and the faults among them
MaxFaultOps == 4

MaxFaults == 1

----------------------------------------------------------------------------
(* Program constants *)

MAGIC == 5969329

\* A uint32_t (and the 32-bit size_t of the target) is held as the integer of
\* the same 32 bits in two's complement, so that + and - wrap as in C:
\* UINT32_MAX is -1, as in "sequence = -1".
UINT32_MAX == -1

\* sizeof(struct cb_header): magic, front (32-bit size_t), record_num, sequence, crc
SizeofHeader == 20

\* one byte of erased flash; a record is modelled by the byte it repeats
ErasedByte == 255

\* the unsigned value of x is 2^31 + UpperHalf(x) when x < 0
UpperHalf(x) == (x + 2147483647) + 1

UGt(a, b) == IF (a < 0) = (b < 0) THEN a > b ELSE a < 0

\* unsigned x % d and x / d, for a small d > 0
UMod(x, d) ==
    IF x >= 0 THEN x % d
    ELSE ((UpperHalf(x) % d) + (2147483647 % d) + 1) % d

UDiv(x, d) ==
    IF x >= 0 THEN x \div d
    ELSE IF d = 1 THEN x
    ELSE (UpperHalf(x) \div d) + (2147483647 \div d)
         + (((UpperHalf(x) % d) + (2147483647 % d) + 1) \div d)

\* a + b in 32 bits
Add32(a, b) ==
    IF a >= 0 /\ b >= 0 /\ a > 2147483647 - b
    THEN ((a - 2147483647) + (b - 2147483647)) - 2
    ELSE IF a < 0 /\ b < 0 /\ a < (-2147483647 - 1) - b
    THEN ((a + 2147483647) + (b + 2147483647)) + 2
    ELSE a + b

None == [none |-> TRUE]

----------------------------------------------------------------------------
(* Geometry: wl_sector_size, wl_size and the record size given to init *)

Geometry(S, P, rs) == [sec_size |-> S, size |-> P, record_size |-> rs]

Geometries ==
    { Geometry(8, 64, 3),     \* 2 data sectors, 2 slots each, 2 bytes of padding
      Geometry(8, 64, 4),     \* 2 data sectors, 2 slots each, no padding
      Geometry(8, 72, 8),     \* 3 data sectors, 1 slot each
      Geometry(8, 64, 9) }    \* a record larger than a sector: init refuses it

secs_for_one_header(geo) == (SizeofHeader + geo.sec_size - 1) \div geo.sec_size

secs_for_header(geo) == 2 * secs_for_one_header(geo)

header_offset(geo) == secs_for_header(geo) * geo.sec_size

records_in_sec(geo) == geo.sec_size \div geo.record_size

sec_num(geo) == geo.size \div geo.sec_size - secs_for_header(geo)

get_max_records(geo) == sec_num(geo) * records_in_sec(geo)

\* ring offsets at which a record slot starts
SlotOffsets(geo) ==
    { s * geo.sec_size + i * geo.record_size :
        s \in 0 .. sec_num(geo) - 1, i \in 0 .. records_in_sec(geo) - 1 }

----------------------------------------------------------------------------
(* Bytes *)

RECURSIVE BitAnd(_, _)
BitAnd(a, b) ==
    IF a = 0 \/ b = 0 THEN 0
    ELSE IF a = -1 THEN b
    ELSE IF b = -1 THEN a
    ELSE (a % 2) * (b % 2) + 2 * BitAnd(a \div 2, b \div 2)

\* flash programming can only clear bits: a byte of a record, a word of a header
Program(old, new) == IF old = ErasedByte THEN new ELSE BitAnd(old, new)

ProgramWord(old, new) == IF old = UINT32_MAX THEN new ELSE BitAnd(old, new)

is_all_ff(rec) == rec = ErasedByte

----------------------------------------------------------------------------
(* Header records *)

ErasedHeader ==
    [magic |-> UINT32_MAX, front |-> UINT32_MAX, record_num |-> UINT32_MAX,
     sequence |-> UINT32_MAX, crc |-> UINT32_MAX]

\* the four bytes of a 32-bit word, least significant first, and back
Bytes32(v) ==
    <<v % 256, (v \div 256) % 256, (v \div 65536) % 256, (v \div 16777216) % 256>>

Word32(b) ==
    b[1] + 256 * b[2] + 65536 * b[3]
        + 16777216 * (IF b[4] >= 128 THEN b[4] - 256 ELSE b[4])

RECURSIVE BitXor(_, _)
BitXor(a, b) ==
    IF a = 0 THEN b
    ELSE IF b = 0 THEN a
    ELSE ((a + b) % 2) + 2 * BitXor(a \div 2, b \div 2)

XorByte == [a \in 0 .. 255 |-> [b \in 0 .. 255 |-> BitXor(a, b)]]

Xor8(a, b) == XorByte[a][b]

Xor32(x, y) == <<Xor8(x[1], y[1]), Xor8(x[2], y[2]), Xor8(x[3], y[3]), Xor8(x[4], y[4])>>

\* the reflected CRC-32 polynomial 0xEDB88320, and a shift right by one bit
CrcPoly == <<32, 131, 184, 237>>

Shr1(c) ==
    <<(c[1] \div 2) + 128 * (c[2] % 2), (c[2] \div 2) + 128 * (c[3] % 2),
      (c[3] \div 2) + 128 * (c[4] % 2), c[4] \div 2>>

RECURSIVE CrcBits(_, _)
CrcBits(c, k) ==
    IF k = 0 THEN c
    ELSE CrcBits(IF c[1] % 2 = 1 THEN Xor32(Shr1(c), CrcPoly) ELSE Shr1(c), k - 1)

CrcTable == [b \in 0 .. 255 |-> CrcBits(<<b, 0, 0, 0>>, 8)]

CrcByte(c, byte) ==
    LET t == CrcTable[Xor8(c[1], byte)]
    IN <<Xor8(c[2], t[1]), Xor8(c[3], t[2]), Xor8(c[4], t[3]), t[4]>>

\* the CRC register after the first k of the bytes
RECURSIVE CrcBytes(_, _, _)
CrcBytes(c, bytes, k) ==
    IF k = 0 THEN c ELSE CrcByte(CrcBytes(c, bytes, k - 1), bytes[k])

\* CRC-32 (little endian, reflected) of bytes, continued from crc
crc32_le(crc, bytes) ==
    Word32(Xor32(CrcBytes(Xor32(Bytes32(crc), <<255, 255, 255, 255>>), bytes,
                          Len(bytes)),
                 <<255, 255, 255, 255>>))

\* esp_crc32_le(0, hdr, sizeof(struct cb_header) - sizeof(uint32_t)): the
\* checksum of the header bytes before the crc field
esp_crc32_le(h) ==
    crc32_le(0, Bytes32(h.magic) \o Bytes32(h.front) \o Bytes32(h.record_num)
                    \o Bytes32(h.sequence))

update_crc(h) == [h EXCEPT !.crc = esp_crc32_le(h)]

check_header(h) == esp_crc32_le(h) = h.crc /\ h.magic = MAGIC

\* a header write that stops before the crc word
TornHeader(old, h) ==
    [magic |-> ProgramWord(old.magic, h.magic), front |-> ProgramWord(old.front, h.front),
     record_num |-> ProgramWord(old.record_num, h.record_num),
     sequence |-> ProgramWord(old.sequence, h.sequence), crc |-> old.crc]

ProgramHeader(old, h) ==
    [magic |-> ProgramWord(old.magic, h.magic), front |-> ProgramWord(old.front, h.front),
     record_num |-> ProgramWord(old.record_num, h.record_num),
     sequence |-> ProgramWord(old.sequence, h.sequence), crc |-> ProgramWord(old.crc, h.crc)]

----------------------------------------------------------------------------
(* Faults: at most one per call.  <<"fail", role>>: the adapter call with   *)
(* that role returns an error and changes nothing; <<"torn", "hdr_write">>: *)
(* the header write returns an error after writing all but the crc;        *)
(* <<"cut", role>>: power is lost right after that adapter call.           *)

NoFault == <<"none", "none">>

PushFaults ==
    { NoFault,
      <<"fail", "data_erase">>, <<"fail", "data_write">>,
      <<"fail", "hdr_erase">>, <<"fail", "hdr_write">>, <<"torn", "hdr_write">>,
      <<"cut", "data_erase">>, <<"cut", "data_write">>, <<"cut", "hdr_erase">> }

DeleteFaults ==
    { NoFault, <<"fail", "hdr_erase">>, <<"fail", "hdr_write">>,
      <<"torn", "hdr_write">>, <<"cut", "hdr_erase">> }

PopFaults == DeleteFaults \cup { <<"fail", "front_read">> }

PeekFaults == { NoFault, <<"fail", "front_read">> }

InitFaults ==
    { NoFault, <<"fail", "partition_find">>, <<"fail", "wl_mount">>,
      <<"fail", "hdr_read1">>, <<"fail", "hdr_read2">>,
      <<"fail", "back_read">>,
      <<"fail", "hdr_erase">>, <<"fail", "hdr_write">>, <<"torn", "hdr_write">>,
      <<"cut", "hdr_erase">> }

----------------------------------------------------------------------------
(* The machine: the object's fields, the flash, and the progress of one    *)
(* call (adapter trace, status of the last adapter call, power still on,   *)
(* fault hit, value read, result).                                         *)

Machine(f, n, s, h, d) ==
    [front |-> f, record_num |-> n, sequence |-> s, hdr |-> h, data |-> d,
     trace |-> <<>>, err |-> FALSE, alive |-> TRUE, hit |-> FALSE,
     buf |-> None, branch |-> "none", res |-> "none"]

Traced(m, kind, role, off, len, ok) ==
    Append(m.trace, [call |-> kind, role |-> role, off |-> off, len |-> len, ok |-> ok])

\* the header slot an address of the header region lies in
SlotOf(geo, addr) == addr \div (secs_for_one_header(geo) * geo.sec_size)

SectorSlots(geo, off, len) ==
    { o \in SlotOffsets(geo) : off <= o /\ o < off + len }

wl_erase_range(m, geo, fault, role, addr, len) ==
    IF ~m.alive THEN m
    ELSE IF fault = <<"fail", role>>
    THEN [m EXCEPT !.trace = Traced(m, "erase", role, addr, len, FALSE),
                   !.err = TRUE, !.hit = TRUE]
    ELSE LET cut == fault = <<"cut", role>>
             m1 == [m EXCEPT !.trace = Traced(m, "erase", role, addr, len, TRUE),
                             !.err = FALSE, !.alive = ~cut, !.hit = @ \/ cut]
         IN IF addr < header_offset(geo)
            THEN [m1 EXCEPT !.hdr[SlotOf(geo, addr)] = ErasedHeader]
            ELSE [m1 EXCEPT !.data =
                    [o \in DOMAIN m.data |->
                        IF o \in SectorSlots(geo, addr - header_offset(geo), len)
                        THEN ErasedByte ELSE m.data[o]]]

\* a write of one record (a byte) into the data ring or of a header into a slot
wl_write(m, geo, fault, role, addr, src, len) ==
    IF ~m.alive THEN m
    ELSE IF fault = <<"fail", role>>
    THEN [m EXCEPT !.trace = Traced(m, "write", role, addr, len, FALSE),
                   !.err = TRUE, !.hit = TRUE]
    ELSE IF fault = <<"torn", role>>
    THEN [m EXCEPT !.trace = Traced(m, "write", role, addr, len, FALSE),
                   !.err = TRUE, !.hit = TRUE,
                   !.hdr[SlotOf(geo, addr)] = TornHeader(@, src)]
    ELSE LET cut == fault = <<"cut", role>>
             m1 == [m EXCEPT !.trace = Traced(m, "write", role, addr, len, TRUE),
                             !.err = FALSE, !.alive = ~cut, !.hit = @ \/ cut]
         IN IF addr < header_offset(geo)
            THEN [m1 EXCEPT !.hdr[SlotOf(geo, addr)] = ProgramHeader(@, src)]
            ELSE [m1 EXCEPT !.data[addr - header_offset(geo)] = Program(@, src)]

\* a read of one record or of one header; the value read is left in buf
wl_read(m, geo, fault, role, addr, len) ==
    IF ~m.alive THEN m
    ELSE IF fault = <<"fail", role>>
    THEN [m EXCEPT !.trace = Traced(m, "read", role, addr, len, FALSE),
                   !.err = TRUE, !.hit = TRUE]
    ELSE [m EXCEPT !.trace = Traced(m, "read", role, addr, len, TRUE),
                   !.err = FALSE,
                   !.buf = IF addr < header_offset(geo)
                           THEN m.hdr[SlotOf(geo, addr)]
                           ELSE m.data[addr - header_offset(geo)]]

Return(m, code) == [m EXCEPT !.res = IF m.alive THEN code ELSE "power_loss"]

ReturnStatus(m) == Return(m, IF m.err THEN "ESP_FAIL" ELSE "ESP_OK")

----------------------------------------------------------------------------
(* The methods of CircularBuffer, as functions of the machine *)

get_back(geo, f, n) ==
    LET sz == geo.sec_size
        remaining_capacity == (sz - (f % sz)) \div geo.record_size
    IN IF UGt(remaining_capacity, n)
       THEN f + n * geo.record_size
       ELSE LET remaining_records == Add32(n, -remaining_capacity)
                full_secs == UDiv(remaining_records, records_in_sec(geo))
                front_sec == f \div sz
                back_sec == UMod(Add32(front_sec + 1, full_secs), sec_num(geo))
                back_offset_in_sec ==
                    UMod(remaining_records, records_in_sec(geo)) * geo.record_size
            IN back_sec * sz + back_offset_in_sec

HeaderOf(m, seq) ==
    update_crc([magic |-> MAGIC, front |-> m.front, record_num |-> m.record_num,
                sequence |-> seq, crc |-> 0])

\* the mutant: every header goes to slot 0
HeaderAddrFixed(geo, seq) == 0

\* the slot write_header erases and writes for a header of sequence seq
HeaderAddr(geo, seq) == UMod(seq, 2) * secs_for_one_header(geo) * geo.sec_size

write_header(m, geo, fault) ==
    LET seq == Add32(m.sequence, 1)
        header == HeaderOf(m, seq)
        addr == HeaderAddr(geo, seq)
        m1 == [m EXCEPT !.sequence = seq]
        m2 == wl_erase_range(m1, geo, fault, "hdr_erase", addr,
                             secs_for_one_header(geo) * geo.sec_size)
    IN IF m2.err THEN m2
       ELSE wl_write(m2, geo, fault, "hdr_write", addr, header, SizeofHeader)

Adopt(m, h) ==
    [m EXCEPT !.front = h.front, !.record_num = h.record_num, !.sequence = h.sequence]

\* header1.sequence > header2.sequence || (header1.sequence == 0 && header2.sequence == UINT32_MAX)
Header1Wins(h1, h2) ==
    UGt(h1.sequence, h2.sequence) \/ (h1.sequence = 0 /\ h2.sequence = UINT32_MAX)

\* init once the partition is mounted and the record size accepted.
\* garbage_ff: what is_all_ff finds in the malloc'ed buffer when the read of
\* the back slot fails and leaves it unwritten
init_mounted(m, geo, recovery_mode, fault, garbage_ff) ==
    LET sz == geo.sec_size
        r1 == wl_read(m, geo, fault, "hdr_read1", 0, SizeofHeader)
        r2 == wl_read(r1, geo, fault, "hdr_read2", secs_for_one_header(geo) * sz,
                      SizeofHeader)
        header1 == r1.buf
        header2 == r2.buf
        header1_valid == check_header(header1)
        header2_valid == check_header(header2)
    IN IF r1.err THEN Return(r1, "ESP_FAIL")
       ELSE IF r2.err THEN Return(r2, "ESP_FAIL")
       ELSE IF header1_valid /\ header2_valid
       THEN Return([Adopt(r2, IF Header1Wins(header1, header2) THEN header1 ELSE header2)
                        EXCEPT !.branch = "both"], "ESP_OK")
       ELSE IF recovery_mode /\ (header1_valid # header2_valid)
       THEN LET a == [Adopt(r2, IF header1_valid THEN header1 ELSE header2)
                        EXCEPT !.branch = "recovery"]
                back == get_back(geo, a.front, a.record_num)
            IN IF back % sz # 0
               THEN LET rd == wl_read(a, geo, fault, "back_read",
                                      header_offset(geo) + back, geo.record_size)
                        all_ff == IF rd.err THEN garbage_ff ELSE is_all_ff(rd.buf)
                    IN IF ~all_ff
                       THEN Return(write_header(
                                [rd EXCEPT !.record_num = Add32(@, 1)], geo, fault),
                                "ESP_OK")
                       ELSE Return(rd, "ESP_OK")
               ELSE Return(a, "ESP_OK")
       ELSE Return(write_header(
                [r2 EXCEPT !.front = 0, !.record_num = 0, !.sequence = UINT32_MAX,
                           !.branch = "reset"],
                geo, fault), "ESP_OK")

\* init: the partition is looked up and mounted and the record size checked
\* before record_size and overwrite are stored and the headers read
init(m, geo, recovery_mode, fault, garbage_ff) ==
    IF fault = <<"fail", "partition_find">>
    THEN Return([m EXCEPT !.hit = TRUE, !.branch = "rejected"], "ESP_ERR_NOT_FOUND")
    ELSE IF fault = <<"fail", "wl_mount">>
    THEN Return([m EXCEPT !.hit = TRUE, !.err = TRUE, !.branch = "rejected"], "ESP_FAIL")
    ELSE IF geo.record_size > geo.sec_size
    THEN Return([m EXCEPT !.branch = "rejected"], "ESP_ERR_INVALID_SIZE")
    ELSE init_mounted(m, geo, recovery_mode, fault, garbage_ff)

remaining_capacity_in_front_sector(geo, f) ==
    (geo.sec_size - (f % geo.sec_size)) \div geo.record_size

\* push_back's back_sec, when the front sector cannot take the record
push_back_sec(geo, f, n) ==
    LET remaining_records == Add32(n, -remaining_capacity_in_front_sector(geo, f))
        full_secs == UDiv(remaining_records, records_in_sec(geo))
        front_sec == f \div geo.sec_size
    IN UMod(Add32(front_sec + 1, full_secs), sec_num(geo))

\* the mutant: the ring is never found full
push_full_never(geo, f, n) == FALSE

\* push_back finds the ring full: back_sec == front_sec
push_full(geo, f, n) ==
    /\ ~UGt(remaining_capacity_in_front_sector(geo, f), n)
    /\ push_back_sec(geo, f, n) = f \div geo.sec_size

\* the mutant: the back is past the records, whatever the sector of the front
push_back_offset_flat(geo, f, n) ==
    (f + n * geo.record_size) % (sec_num(geo) * geo.sec_size)

\* the offset push_back writes the record at, from the front and record_num
\* it was called with
push_back_offset(geo, f, n) ==
    LET remaining_records == Add32(n, -remaining_capacity_in_front_sector(geo, f))
        back_offset_in_sec ==
            UMod(remaining_records, records_in_sec(geo)) * geo.record_size
    IN IF UGt(remaining_capacity_in_front_sector(geo, f), n)
       THEN f + n * geo.record_size
       ELSE push_back_sec(geo, f, n) * geo.sec_size + back_offset_in_sec

\* the mutant: the sector is never erased before the write
push_back_erases_never(geo, back) == FALSE

\* push_back erases the sector of back before writing: back % sec_size == 0
push_back_erases(geo, back) == back % geo.sec_size = 0

push_back(m, geo, ow, src, fault) ==
    LET sz == geo.sec_size
        front_sec == m.front \div sz
        full == push_full(geo, m.front, m.record_num)
        back == push_back_offset(geo, m.front, m.record_num)
        m1 == IF full /\ ow
              THEN [m EXCEPT !.front = ((front_sec + 1) % sec_num(geo)) * sz,
                             !.record_num = Add32(@,
                                 -remaining_capacity_in_front_sector(geo, m.front))]
              ELSE m
        m2 == IF push_back_erases(geo, back)
              THEN wl_erase_range(m1, geo, fault, "data_erase",
                                  back + header_offset(geo), sz)
              ELSE m1
        m3 == wl_write(m2, geo, fault, "data_write", back + header_offset(geo), src,
                       geo.record_size)
    IN IF full /\ ~ow THEN Return(m, "ESP_ERR_NO_MEM")
       ELSE IF m3.err THEN Return(m3, "ESP_FAIL")
       ELSE ReturnStatus(write_header([m3 EXCEPT !.record_num = Add32(@, 1)], geo, fault))

peek_front(m, geo, fault) ==
    IF m.record_num = 0 THEN Return(m, "ESP_ERR_NOT_FOUND")
    ELSE ReturnStatus(wl_read(m, geo, fault, "front_read",
                              m.front + header_offset(geo), geo.record_size))

\* the front after delete_front
NextFront(geo, f) ==
    LET sz == geo.sec_size
    IN IF sz - (f % sz) > 2 * geo.record_size
       THEN f + geo.record_size
       ELSE (((f \div sz) + 1) % sec_num(geo)) * sz

delete_front(m, geo, fault) ==
    ReturnStatus(write_header(
        [m EXCEPT !.front = NextFront(geo, @), !.record_num = Add32(@, -1)], geo, fault))

pop_front(m, geo, fault) ==
    LET p == peek_front(m, geo, fault)
    IN IF p.res # "ESP_OK" THEN p ELSE delete_front(p, geo, fault)

get_record_num(m) == m.record_num

----------------------------------------------------------------------------
(* Partitions the ring can be mounted on first: a blank one, and one the   *)
(* ring has been cycled on, push_back then pop_front, AgedPairs times      *)
(* since its reset.  After one turn of the ring the flash repeats with     *)
(* the period of front, except for the sequence numbers, which count the   *)
(* header writes: two per pair.                                            *)

BlankData(geo) == [o \in SlotOffsets(geo) |-> ErasedByte]

BlankHdr == [slot \in 0 .. 1 |-> ErasedHeader]

AgedPairs == 2147483646 + 1

RECURSIVE FrontPeriod(_, _, _)
FrontPeriod(geo, f, d) ==
    IF NextFront(geo, f) = 0 THEN d + 1 ELSE FrontPeriod(geo, NextFront(geo, f), d + 1)

RECURSIVE Cycled(_, _, _)
Cycled(m, geo, k) ==
    IF k = 0 \/ m.res # "ESP_OK" THEN m
    ELSE Cycled(pop_front(push_back(m, geo, FALSE, 0, NoFault), geo, NoFault), geo, k - 1)

Rebased(h, delta) ==
    IF check_header(h) THEN update_crc([h EXCEPT !.sequence = @ + delta]) ELSE h

AgedMachine(geo) ==
    LET d == FrontPeriod(geo, 0, 0)
        k == d + (AgedPairs % d)
        m == Cycled(init(Machine(0, 0, 0, BlankHdr, BlankData(geo)), geo, FALSE,
                         NoFault, FALSE), geo, k)
        delta == 2 * ((AgedPairs - 2147483647) - 1) - 2 * k   \* 2 * (AgedPairs - k) - 2^32
    IN [m EXCEPT !.hdr = [slot \in 0 .. 1 |-> Rebased(m.hdr[slot], delta)]]

----------------------------------------------------------------------------
(* History *)

Payload(k) == k

\* the header slot holding h, as the history records it
DurableOf(seq, h) ==
    [slot |-> UMod(seq, 2), front |-> h.front, record_num |-> h.record_num,
     sequence |-> h.sequence]

HeaderWritten(m) ==
    \E i \in 1 .. Len(m.trace) : m.trace[i].role = "hdr_write" /\ m.trace[i].ok

\* the adapter calls of a trace that are the erase of a write_header
HdrErases(trace) == { i \in 1 .. Len(trace) : trace[i].role = "hdr_erase" }

\* the header slot of the last write_header invocation of the session, after a
\* call with this trace, as a set (NoSlot while there was none)
NoSlot == {}

InvokedSlot(geo, trace, prev) ==
    IF HdrErases(trace) = {} THEN prev
    ELSE {SlotOf(geo, trace[CHOOSE i \in HdrErases(trace) :
                               \A j \in HdrErases(trace) : j <= i].off)}

\* the record last written to each slot of the data ring, after a push_back
\* of src with this trace
Written(geo, trace, src, prev) ==
    [o \in DOMAIN prev |->
        IF \E i \in 1 .. Len(trace) :
              /\ trace[i].role = "data_write" /\ trace[i].ok
              /\ trace[i].off = o + header_offset(geo)
        THEN src ELSE prev[o]]

\* the header init adopts from this flash, when it adopts one
Authoritative(h) ==
    IF check_header(h[0]) /\ check_header(h[1])
    THEN IF Header1Wins(h[0], h[1]) THEN h[0] ELSE h[1]
    ELSE IF check_header(h[0]) THEN h[0]
    ELSE IF check_header(h[1]) THEN h[1]
    ELSE None

FrontRecord(f, n, d) == IF n = 0 \/ f \notin DOMAIN d THEN None ELSE [bytes |-> d[f]]

StateOf(m) == <<m.front, m.record_num>>

NoHist == [faults |-> FALSE, underflow |-> FALSE, fresh |-> FALSE, fifo |-> FALSE,
           npush |-> 0, nfaults |-> 0, wslot |-> NoSlot, reset |-> FALSE,
           written |-> <<>>, streak |-> None]

\* the run of push_back calls a fault-free call starts when it leaves the ring
\* empty: the front the ring is empty at, and the pushes made before the run
StreakAt(m, fault, base) ==
    IF fault = NoFault /\ m.res = "ESP_OK" /\ m.record_num = 0
    THEN [front |-> m.front, base |-> base]
    ELSE None

Faulted(fault) == IF fault = NoFault THEN 0 ELSE 1

\* a call may be made, under this fault, within the behaviour's budget
Within(fault) ==
    /\ ops < budget.ops
    /\ fault # NoFault => hist.nfaults < budget.faults

Pre == [front |-> front, record_num |-> record_num, sequence |-> sequence,
        hdr |-> hdr, data |-> data, durable |-> durable, expect |-> expect,
        inflight |-> inflight, mounted |-> mounted, fresh |-> hist.fresh,
        wslot |-> hist.wslot, reset |-> hist.reset, streak |-> hist.streak]

Last(op, fault, m, src, rm) ==
    [op |-> op, fault |-> fault, res |-> m.res, trace |-> m.trace, buf |-> m.buf,
     src |-> src, recovery_mode |-> rm, branch |-> m.branch, pre |-> Pre]

Here == Machine(front, record_num, sequence, hdr, data)

\* what every call leaves behind: the object's fields (lost with the power),
\* the flash, and the history of durable headers
Leave(m, on) ==
    /\ mounted' = on
    /\ front' = IF on THEN m.front ELSE 0
    /\ record_num' = IF on THEN m.record_num ELSE 0
    /\ sequence' = IF on THEN m.sequence ELSE 0
    /\ hdr' = m.hdr
    /\ data' = m.data
    /\ durable' = IF HeaderWritten(m)
                  THEN DurableOf(m.sequence, m.hdr[UMod(m.sequence, 2)]) ELSE durable
    /\ ops' = ops + 1
    /\ UNCHANGED <<g, budget>>

\* a call cut by a power loss remembers the state before it and the state the
\* same call reaches when nothing goes wrong
Inflight(op, m, done) ==
    IF m.alive THEN None
    ELSE [op |-> op, at |-> m.trace[Len(m.trace)].role,
          pre |-> <<front, record_num>>, post |-> StateOf(done),
          valid |-> check_header(hdr[0]) \/ check_header(hdr[1]),
          pre_durable |-> durable]

Expect(m) ==
    IF m.res = "ESP_OK" THEN [front |-> m.front, record_num |-> m.record_num,
                              head |-> FrontRecord(m.front, m.record_num, m.data)]
    ELSE None

----------------------------------------------------------------------------
(* Initial states and actions.  An action binds the machine its method     *)
(* returns once (\E m \in {...}) and every variable is set from it.         *)

InitOn(b, geos, ages) ==
    /\ budget = b
    /\ g \in geos
    /\ \E aged \in IF g.record_size <= g.sec_size THEN ages ELSE ages \ {TRUE} :
         /\ hdr = IF aged THEN AgedMachine(g).hdr ELSE BlankHdr
         /\ data = IF aged THEN AgedMachine(g).data ELSE BlankData(g)
         /\ durable = IF aged
                      THEN DurableOf(AgedMachine(g).hdr[0].sequence,
                                     AgedMachine(g).hdr[0])
                      ELSE None
    /\ overwrite = FALSE
    /\ mounted = FALSE
    /\ front = 0
    /\ record_num = 0
    /\ sequence = 0
    /\ last = [op |-> "none"]
    /\ pushed = <<>>
    /\ popped = <<>>
    /\ expect = None
    /\ inflight = None
    /\ hist = [NoHist EXCEPT !.written = data]
    /\ ops = 0

\* init(partition_name, record_size, overwrite, recovery_mode)
Mount(recovery_mode, fault, garbage_ff) ==
    /\ ~mounted
    /\ Within(fault)
    /\ garbage_ff => fault = <<"fail", "back_read">>
    /\ \E m \in {init(Machine(0, 0, 0, hdr, data), g, recovery_mode, fault, garbage_ff)} :
          /\ (fault # NoFault) => m.hit
          /\ Leave(m, m.res = "ESP_OK")
          /\ last' = Last("init", fault, m, None, recovery_mode)
          /\ pushed' = <<>>
          /\ popped' = <<>>
          /\ expect' = Expect(m)
          /\ inflight' = None
          /\ \E ow \in BOOLEAN :
               /\ overwrite' = IF m.branch = "rejected" THEN overwrite ELSE ow
               /\ hist' = [faults |-> fault # NoFault, underflow |-> hist.underflow,
                           fresh |-> m.branch = "reset" /\ fault = NoFault,
                           fifo |-> m.record_num = 0 /\ fault = NoFault /\ ~ow,
                           npush |-> hist.npush,
                           nfaults |-> hist.nfaults + Faulted(fault),
                           wslot |-> InvokedSlot(g, m.trace, NoSlot),
                           reset |-> m.branch = "reset" /\ m.res = "ESP_OK",
                           written |-> hist.written,
                           streak |-> StreakAt(m, fault, 0)]

\* push_back(src): the k-th push of a behaviour pushes a record of bytes k
PushBack(fault) ==
    /\ mounted
    /\ Within(fault)
    /\ \E src \in {Payload(hist.npush + 1)} :
       \E m \in {push_back(Here, g, overwrite, src, fault)} :
          /\ (fault # NoFault) => m.hit
          /\ Leave(m, m.alive)
          /\ last' = Last("push_back", fault, m, src, FALSE)
          /\ pushed' = IF m.res = "ESP_OK" THEN Append(pushed, src) ELSE pushed
          /\ expect' = Expect(m)
          /\ inflight' = Inflight("push_back", m,
                                  push_back(Here, g, overwrite, src, NoFault))
          /\ hist' = [hist EXCEPT !.faults = @ \/ fault # NoFault,
                                  !.fresh = @ /\ fault = NoFault,
                                  !.fifo = @ /\ fault = NoFault,
                                  !.npush = @ + 1,
                                  !.written = Written(g, m.trace, src, @),
                                  !.nfaults = @ + Faulted(fault),
                                  !.wslot = InvokedSlot(g, m.trace, @),
                                  !.reset = FALSE,
                                  !.streak = IF fault = NoFault /\ m.res = "ESP_OK"
                                             THEN @ ELSE None]
    /\ UNCHANGED <<overwrite, popped>>

\* delete_front()
DeleteFront(fault) ==
    /\ mounted
    /\ Within(fault)
    /\ \E m \in {delete_front(Here, g, fault)} :
          /\ (fault # NoFault) => m.hit
          /\ Leave(m, m.alive)
          /\ last' = Last("delete_front", fault, m, None, FALSE)
          /\ expect' = Expect(m)
          /\ inflight' = Inflight("delete_front", m, delete_front(Here, g, NoFault))
          /\ hist' = [hist EXCEPT !.faults = @ \/ fault # NoFault,
                                  !.underflow = @ \/ record_num = 0,
                                  !.fresh = FALSE,
                                  !.fifo = FALSE,
                                  !.nfaults = @ + Faulted(fault),
                                  !.wslot = InvokedSlot(g, m.trace, @),
                                  !.reset = FALSE,
                                  !.streak = StreakAt(m, fault, Len(pushed))]
    /\ UNCHANGED <<overwrite, pushed, popped>>

\* pop_front(dest)
PopFront(fault) ==
    /\ mounted
    /\ Within(fault)
    /\ \E m \in {pop_front(Here, g, fault)} :
          /\ (fault # NoFault) => m.hit
          /\ Leave(m, m.alive)
          /\ last' = Last("pop_front", fault, m, None, FALSE)
          /\ popped' = IF m.res = "ESP_OK" THEN Append(popped, m.buf) ELSE popped
          /\ expect' = Expect(m)
          /\ inflight' = Inflight("pop_front", m, pop_front(Here, g, NoFault))
          /\ hist' = [hist EXCEPT !.faults = @ \/ fault # NoFault,
                                  !.fresh = FALSE,
                                  !.fifo = @ /\ fault = NoFault,
                                  !.nfaults = @ + Faulted(fault),
                                  !.wslot = InvokedSlot(g, m.trace, @),
                                  !.reset = FALSE,
                                  !.streak = StreakAt(m, fault, Len(pushed))]
    /\ UNCHANGED <<overwrite, pushed>>

\* peek_front(dest)
PeekFront(fault) ==
    /\ mounted
    /\ Within(fault)
    /\ \E m \in {peek_front(Here, g, fault)} :
          /\ (fault # NoFault) => m.hit
          /\ Leave(m, TRUE)
          /\ last' = Last("peek_front", fault, m, None, FALSE)
          /\ hist' = [hist EXCEPT !.faults = @ \/ fault # NoFault,
                                  !.nfaults = @ + Faulted(fault)]
    /\ UNCHANGED <<overwrite, pushed, popped, expect, inflight>>

\* the power goes off between two calls; the flash keeps its contents
PowerOff ==
    /\ mounted
    /\ mounted' = FALSE
    /\ front' = 0
    /\ record_num' = 0
    /\ sequence' = 0
    /\ last' = [op |-> "power_off"]
    /\ UNCHANGED <<g, overwrite, hdr, data, pushed, popped, durable, expect,
                   inflight, hist, ops, budget>>

Next ==
    \/ \E rm \in BOOLEAN, fault \in InitFaults, gff \in BOOLEAN : Mount(rm, fault, gff)
    \/ \E fault \in PushFaults : PushBack(fault)
    \/ \E fault \in DeleteFaults : DeleteFront(fault)
    \/ \E fault \in PopFaults : PopFront(fault)
    \/ \E fault \in PeekFaults : PeekFront(fault)
    \/ PowerOff

\* behaviours with faults
Init == InitOn([ops |-> MaxFaultOps, faults |-> MaxFaults], Geometries, BOOLEAN)

Spec == Init /\ [][Next]_vars

\* longer behaviours in which no adapter call fails and no call is cut
InitNoFault == InitOn([ops |-> MaxOps, faults |-> 0], Geometries, BOOLEAN)

SpecNoFault == InitNoFault /\ [][Next]_vars

\* one more call and one more fault, on a blank partition of one geometry
InitTwoFaults ==
    InitOn([ops |-> MaxFaultOps + 1, faults |-> MaxFaults + 1],
           {Geometry(8, 64, 3)}, {FALSE})

SpecTwoFaults == InitTwoFaults /\ [][Next]_vars

----------------------------------------------------------------------------
(* Properties *)

IsPrefix(a, b) == Len(a) <= Len(b) /\ \A i \in 1 .. Len(a) : a[i] = b[i]

\* C1: FIFO order.  On a ring mounted empty with overwrite off, with no fault
\* and no delete_front since, the values the successful pop_front calls
\* returned are the values of the successful push_back calls, in order.
C1_FifoOrder == hist.fifo => IsPrefix(popped, pushed)

\* C2: durability.  When init returns ESP_OK right after a call that returned
\* ESP_OK (with only a power cycle in between), the ring is mounted with the
\* front, the record_num and the front record of that call.
C2_Durability ==
    (last.op = "init" /\ last.res = "ESP_OK" /\ last.pre.expect # None)
        => /\ front = last.pre.expect.front
           /\ record_num = last.pre.expect.record_num
           /\ FrontRecord(front, record_num, data) = last.pre.expect.head

\* the call before this init was cut by a power loss
AfterCut(opnames) ==
    /\ last.op = "init"
    /\ last.res = "ESP_OK"
    /\ last.fault = NoFault
    /\ last.pre.inflight # None
    /\ last.pre.inflight.op \in opnames

\* C3: crash safety with recovery_mode.  When a push_back or delete_front that
\* started with a valid header slot on flash is cut after any of its adapter
\* calls, init with recovery_mode mounts the ring in the state before the call
\* (the object's, or the one the flash held) or in the state after it.
C3_CrashSafety ==
    (AfterCut({"push_back", "delete_front"}) /\ last.recovery_mode
        /\ last.pre.inflight.valid)
        => \/ <<front, record_num>> = last.pre.inflight.pre
           \/ <<front, record_num>> = last.pre.inflight.post
           \/ /\ last.pre.inflight.pre_durable # None
              /\ front = last.pre.inflight.pre_durable.front
              /\ record_num = last.pre.inflight.pre_durable.record_num

\* C4: interrupted push without recovery_mode.  After a push_back cut between
\* the erase and the write of its header, init without recovery_mode mounts
\* the ring with the front and the record_num it had before the push.
C4_InterruptedPushNoRecovery ==
    (AfterCut({"push_back"}) /\ ~last.recovery_mode
        /\ last.pre.inflight.at = "hdr_erase")
        => <<front, record_num>> = last.pre.inflight.pre

\* C5: interrupted push with recovery_mode.  After a push_back cut between
\* the erase and the write of its header, init with recovery_mode mounts the
\* ring with one record more than before the push.
C5_InterruptedPushRecovery ==
    (AfterCut({"push_back"}) /\ last.recovery_mode
        /\ last.pre.inflight.at = "hdr_erase")
        => record_num = Add32(last.pre.inflight.pre[2], 1)

\* C6: header slot protection.  The slot a push_back, delete_front or
\* pop_front erases is not the slot of the last header written successfully,
\* and the other slot holds that header, valid, when the call is over or cut.
C6_HeaderSlotProtection ==
    (/\ last.op \in {"push_back", "delete_front", "pop_front"}
     /\ last.pre.durable # None
     /\ HdrErases(last.trace) # {})
        => \A i \in HdrErases(last.trace) :
             LET slot == SlotOf(g, last.trace[i].off)
                 kept == last.pre.hdr[1 - slot]
             IN /\ slot # last.pre.durable.slot
                /\ check_header(kept)
                /\ kept.front = last.pre.durable.front
                /\ kept.record_num = last.pre.durable.record_num

\* C7: mount selection.  When both header slots are valid, init adopts the
\* header written last.
C7_MountSelection ==
    (last.op = "init" /\ last.res = "ESP_OK" /\ last.branch = "both"
        /\ last.pre.durable # None)
        => /\ front = last.pre.durable.front
           /\ record_num = last.pre.durable.record_num
           /\ sequence = last.pre.durable.sequence

\* C8: delete_front on an empty ring returns the Empty error and changes
\* neither the object nor the header slots.
C8_DeleteFrontEmpty ==
    (last.op = "delete_front" /\ last.pre.record_num = 0)
        => /\ last.res = "ESP_ERR_NOT_FOUND"
           /\ front = last.pre.front
           /\ record_num = last.pre.record_num
           /\ sequence = last.pre.sequence
           /\ hdr = last.pre.hdr

\* C9: full without overwrite.  On a ring just reset, with overwrite off and
\* nothing but fault-free push_back calls since, a push_back succeeds while
\* fewer than get_max_records() records are held, and from then on returns
\* ESP_ERR_NO_MEM, changes neither the object nor the flash and makes no
\* adapter call.
C9_FullWithoutOverwrite ==
    (hist.fresh /\ ~overwrite /\ mounted)
        => /\ front = 0
           /\ record_num = Len(pushed)
           /\ last.op = "push_back" =>
                IF last.pre.record_num < get_max_records(g)
                THEN last.res = "ESP_OK" /\ record_num = last.pre.record_num + 1
                ELSE /\ last.res = "ESP_ERR_NO_MEM"
                     /\ last.trace = <<>>
                     /\ front = last.pre.front
                     /\ record_num = last.pre.record_num
                     /\ sequence = last.pre.sequence
                     /\ hdr = last.pre.hdr
                     /\ data = last.pre.data

\* C9, witness: the push after get_max_records() successful ones is refused
C9_Witness ==
    /\ hist.fresh /\ ~overwrite /\ mounted
    /\ last.op = "push_back"
    /\ last.res = "ESP_ERR_NO_MEM"
    /\ Len(pushed) = get_max_records(g)

\* C10, as claimed: record_num is at most get_max_records(), and front is a
\* multiple of record_size within the data ring, whatever the record size.
C10_StateInvariantClaimed ==
    (mounted /\ ~hist.underflow)
        => /\ 0 <= record_num /\ record_num <= get_max_records(g)
           /\ front % g.record_size = 0
           /\ 0 <= front /\ front < sec_num(g) * g.sec_size

\* C10, amended: record_num is at most get_max_records(), and front is the
\* start of a record slot of the data ring: its offset in its sector is a
\* multiple of record_size and the slot ends within the sector.
C10_StateInvariant ==
    (mounted /\ ~hist.underflow)
        => /\ 0 <= record_num /\ record_num <= get_max_records(g)
           /\ (front % g.sec_size) % g.record_size = 0
           /\ (front % g.sec_size) + g.record_size <= g.sec_size
           /\ 0 <= front /\ front < sec_num(g) * g.sec_size

\* C10, witness: a full ring whose record size does not divide the sector
\* size, front past the first sector
C10_Witness ==
    /\ mounted /\ ~hist.underflow
    /\ g.sec_size % g.record_size # 0
    /\ front % g.record_size # 0
    /\ record_num > 0
    /\ last.op = "push_back" /\ last.res = "ESP_ERR_NO_MEM"

\* C11, as claimed: overwrite drops one sector.  On an empty ring, with
\* overwrite on and nothing but fault-free push_back calls since it was empty,
\* every push_back returns ESP_OK; after get_max_records() + 1 of them
\* record_num is get_max_records() - records_in_sec() + 1, the ring holds the
\* records pushed from index records_in_sec() on, and a pop_front made then
\* returns the record pushed at index records_in_sec().
C11_OverwriteDropsSectorClaimed ==
    /\ (mounted /\ overwrite /\ last.op = "push_back" /\ last.fault = NoFault
            /\ last.pre.streak # None)
         => /\ last.res = "ESP_OK"
            /\ Len(pushed) - last.pre.streak.base = get_max_records(g) + 1
                 => /\ record_num = get_max_records(g) - records_in_sec(g) + 1
                    /\ \A i \in 0 .. record_num - 1 :
                         data[get_back(g, front, i)]
                             = pushed[last.pre.streak.base + records_in_sec(g) + 1 + i]
    /\ (last.op = "pop_front" /\ last.fault = NoFault /\ last.pre.streak # None /\ overwrite
            /\ Len(pushed) - last.pre.streak.base = get_max_records(g) + 1)
         => /\ last.res = "ESP_OK"
            /\ last.buf = pushed[last.pre.streak.base + records_in_sec(g) + 1]

\* C11, amended: overwrite drops the front sector.  On an empty ring, with
\* overwrite on and nothing but fault-free push_back calls since it was empty,
\* every push_back returns ESP_OK; after get_max_records() + 1 of them the
\* front is at the sector after the one it was empty in, the rem records the
\* ring held in that sector are gone, rem being the slots from the front the
\* ring was empty at to the end of its sector (records_in_sec() when that
\* front is the start of a sector, as after a reset), record_num is
\* get_max_records() - rem + 1, the ring holds the records pushed from index
\* rem on, and a pop_front made then returns the record pushed at index rem.
C11_OverwriteDropsSector ==
    /\ (mounted /\ overwrite /\ last.op = "push_back" /\ last.fault = NoFault
            /\ last.pre.streak # None)
         => /\ last.res = "ESP_OK"
            /\ Len(pushed) - last.pre.streak.base = get_max_records(g) + 1
                 => LET rem == remaining_capacity_in_front_sector(g, last.pre.streak.front)
                    IN /\ record_num = get_max_records(g) - rem + 1
                       /\ front = (((last.pre.streak.front \div g.sec_size) + 1)
                                       % sec_num(g)) * g.sec_size
                       /\ \A i \in 0 .. record_num - 1 :
                            data[get_back(g, front, i)]
                                = pushed[last.pre.streak.base + rem + 1 + i]
    /\ (last.op = "pop_front" /\ last.fault = NoFault /\ last.pre.streak # None /\ overwrite
            /\ Len(pushed) - last.pre.streak.base = get_max_records(g) + 1)
         => /\ last.res = "ESP_OK"
            /\ last.buf = pushed[last.pre.streak.base
                    + remaining_capacity_in_front_sector(g, last.pre.streak.front) + 1]

\* C11, witness: the pop_front after get_max_records() + 1 pushes onto a ring
\* that was empty with its front in the middle of a sector
C11_Witness ==
    /\ last.op = "pop_front" /\ last.fault = NoFault /\ last.pre.streak # None /\ overwrite
    /\ Len(pushed) - last.pre.streak.base = get_max_records(g) + 1
    /\ last.pre.streak.front % g.sec_size # 0
    /\ last.res = "ESP_OK"

\* C12: header alternation.  Within one mounted session, a write_header
\* invocation made by push_back, delete_front or pop_front erases the slot of
\* index (sequence + 1) mod 2, which is not the slot of the invocation before
\* it in the session, whether that one succeeded or failed.
C12_HeaderAlternation ==
    (last.op \in {"push_back", "delete_front", "pop_front"}
        /\ HdrErases(last.trace) # {})
        => /\ Cardinality(HdrErases(last.trace)) = 1
           /\ hist.wslot = {UMod(Add32(last.pre.sequence, 1), 2)}
           /\ hist.wslot # last.pre.wslot

\* C12, witness: a write_header invocation that follows, in the same session,
\* one that did not write its header
C12_Witness ==
    /\ last.op \in {"push_back", "delete_front", "pop_front"}
    /\ HdrErases(last.trace) # {}
    /\ last.pre.wslot # NoSlot
    /\ last.pre.durable # None
    /\ last.pre.durable.sequence # last.pre.sequence

\* the adapter writes of a trace at an offset that is a multiple of sec_size
AlignedWrites(trace) ==
    { i \in 1 .. Len(trace) : trace[i].call = "write" /\ trace[i].off % g.sec_size = 0 }

\* C13: erase before sector-aligned write.  Every adapter write at an offset
\* that is a multiple of the sector size (a header slot, or the first record
\* slot of a data sector) comes, in the adapter trace of its call, right
\* after an erase_range call that covers the sector written.
C13_EraseBeforeAlignedWrite ==
    (last.op \in {"init", "push_back", "delete_front", "pop_front", "peek_front"})
        => \A i \in AlignedWrites(last.trace) :
             /\ i > 1
             /\ last.trace[i - 1].call = "erase"
             /\ last.trace[i - 1].off <= last.trace[i].off
             /\ last.trace[i].off + g.sec_size
                    <= last.trace[i - 1].off + last.trace[i - 1].len

\* C13, witness: a push_back that wrote its record to the first slot of a data
\* sector and then its header
C13_Witness ==
    /\ last.op = "push_back"
    /\ last.res = "ESP_OK"
    /\ \E i \in AlignedWrites(last.trace) : last.trace[i].role = "data_write"
    /\ \E i \in AlignedWrites(last.trace) : last.trace[i].role = "hdr_write"

\* the adapter writes of a trace that carry a record
DataWrites(trace) ==
    { i \in 1 .. Len(trace) : trace[i].call = "write" /\ trace[i].role = "data_write" }

\* C14: writes only hit erased flash.  The record slot a push_back writes to
\* is erased: either the call just before the write is an erase_range of its
\* sector that succeeded, or the slot held erased bytes when push_back was
\* called (a record is never made of erased bytes, so a slot written since its
\* last erase does not).
C14_WritesHitErasedFlash ==
    (last.op = "push_back")
        => \A i \in DataWrites(last.trace) :
             \/ /\ i > 1
                /\ last.trace[i - 1].role = "data_erase"
                /\ last.trace[i - 1].ok
             \/ is_all_ff(last.pre.data[last.trace[i].off - header_offset(g)])

\* C15: delete_front consumes exactly one slot.  A delete_front (alone or in
\* pop_front) on a ring that holds a record moves front to the next record
\* slot of its sector, unless front is the last slot of the sector (slot
\* index records_in_sec() - 1): then front becomes the start of the next
\* sector modulo sec_num().
C15_DeleteConsumesOneSlot ==
    (/\ last.op \in {"delete_front", "pop_front"}
     /\ last.res = "ESP_OK"
     /\ last.pre.record_num # 0
     /\ last.pre.front \in SlotOffsets(g))
        => front = IF (last.pre.front % g.sec_size) \div g.record_size
                        = records_in_sec(g) - 1
                   THEN (((last.pre.front \div g.sec_size) + 1) % sec_num(g)) * g.sec_size
                   ELSE last.pre.front + g.record_size

\* the last adapter call of the trace is the erase or the write of a
\* write_header, and it returned an error
HeaderFailed(trace) ==
    /\ trace # <<>>
    /\ trace[Len(trace)].role \in {"hdr_erase", "hdr_write"}
    /\ ~trace[Len(trace)].ok

\* C16: a write_header whose erase or write returns an error leaves the
\* sequence of the object as it was.
C16_SequenceOnFailure ==
    (/\ last.op \in {"push_back", "delete_front", "pop_front"}
     /\ last.res = "ESP_FAIL"
     /\ HeaderFailed(last.trace))
        => sequence = last.pre.sequence

\* C17: counters change only on successful publication.  When push_back or
\* delete_front returns an adapter error, front and record_num of the object
\* are what they were before the call.
C17_CountersOnFailure ==
    (last.op \in {"push_back", "delete_front"} /\ last.res = "ESP_FAIL")
        => /\ front = last.pre.front
           /\ record_num = last.pre.record_num

\* C18: back offset after an overwrite drop.  The offset push_back writes the
\* record at is get_back() of the front and the record_num the object has at
\* the write, that is after the front sector was dropped when the ring was
\* full with overwrite on (they are those of the object when push_back
\* returns, less the record counted once the write succeeded).
C18_BackAfterDrop ==
    (last.op = "push_back" /\ last.res \in {"ESP_OK", "ESP_FAIL"})
        => \A i \in DataWrites(last.trace) :
             last.trace[i].off - header_offset(g)
                = get_back(g, front, IF last.trace[i].ok
                                     THEN Add32(record_num, -1) ELSE record_num)

\* C18, witness: a push_back that dropped the front sector, the front being
\* in the middle of it
C18_Witness ==
    /\ last.op = "push_back" /\ last.res = "ESP_OK"
    /\ overwrite
    /\ last.pre.front % g.sec_size # 0
    /\ front # last.pre.front
    /\ DataWrites(last.trace) # {}

\* C19: reset is durable.  When init took the reset branch and returned
\* ESP_OK, and no push_back, delete_front or pop_front was called since, the
\* next init that returns ESP_OK mounts the ring with front 0 and
\* record_num 0.
C19_ResetDurable ==
    (last.op = "init" /\ last.res = "ESP_OK" /\ last.fault = NoFault
        /\ last.pre.reset)
        => front = 0 /\ record_num = 0

\* C20: live records are never erased before the header says so.  Whenever a
\* call has returned or has been cut after any of its adapter calls, each of
\* the record_num records the header init would adopt counts from its front
\* holds a record, the one last pushed to its slot.
C20_LiveRecordsKept ==
    (Authoritative(hdr) # None /\ ~hist.underflow)
        => LET h == Authoritative(hdr)
           IN /\ 0 <= h.record_num /\ h.record_num <= get_max_records(g)
              /\ \A i \in 0 .. h.record_num - 1 :
                   /\ ~is_all_ff(data[get_back(g, h.front, i)])
                   /\ data[get_back(g, h.front, i)]
                        = hist.written[get_back(g, h.front, i)]

====
